---- MODULE Spec2Model ----
(***************************************************************************)
(* Model of chriscarl.tools.downloaders.basic: the page visitor            *)
(* url_walk_files_and_links and the generator domain_walk_find_files.      *)
(*                                                                         *)
(* A Python str is a sequence of one-character strings, so that split,     *)
(* find, the substring test `in`, urljoin, os.path.splitext and the        *)
(* EMAIL_REGEX search are computed character by character.                 *)
(***************************************************************************)
EXTENDS Integers, Sequences, FiniteSets, TLC

(***************************************************************************)
(* str primitives                                                          *)
(***************************************************************************)
\* s[i:] with a 1-based index
From(s, i) == SubSeq(s, i, Len(s))

\* s[:i-1] with a 1-based index
Upto(s, i) == SubSeq(s, 1, i - 1)

\* s.startswith(p)
StartsWith(s, p) == Len(p) <= Len(s) /\ SubSeq(s, 1, Len(p)) = p

\* p in s (substring test); the empty string is in every string
Contains(s, p) ==
    \E i \in 1..(Len(s) - Len(p) + 1) : SubSeq(s, i, i + Len(p) - 1) = p

\* s.find(c) + 1 : 1-based index of the first c, 0 when absent
Find(s, c) ==
    IF \E i \in 1..Len(s) : s[i] = c
    THEN CHOOSE i \in 1..Len(s) : s[i] = c /\ \A j \in 1..(i - 1) : s[j] # c
    ELSE 0

\* s.rfind(c) + 1 : 1-based index of the last c, 0 when absent
RFind(s, c) ==
    IF \E i \in 1..Len(s) : s[i] = c
    THEN CHOOSE i \in 1..Len(s) : s[i] = c /\ \A j \in (i + 1)..Len(s) : s[j] # c
    ELSE 0

\* s.find(c, start) + 1 with a 1-based start
FindFrom(s, c, start) ==
    IF \E i \in start..Len(s) : s[i] = c
    THEN CHOOSE i \in start..Len(s) : s[i] = c /\ \A j \in start..(i - 1) : s[j] # c
    ELSE 0

\* s.split(c)[0]
SplitFirst(s, c) == IF Find(s, c) = 0 THEN s ELSE Upto(s, Find(s, c))

\* s.split(c) : the list of the pieces between the separators
RECURSIVE Split(_, _)
Split(s, c) ==
    IF Find(s, c) = 0 THEN <<s>>
    ELSE <<Upto(s, Find(s, c))>> \o Split(From(s, Find(s, c) + 1), c)

\* c.join(parts)
RECURSIVE Join(_, _)
Join(parts, c) ==
    IF Len(parts) = 0 THEN <<>>
    ELSE IF Len(parts) = 1 THEN parts[1]
    ELSE parts[1] \o <<c>> \o Join(Tail(parts), c)

\* list(filter(None, parts)) : drop the empty strings
RECURSIVE FilterNone(_)
FilterNone(parts) ==
    IF Len(parts) = 0 THEN <<>>
    ELSE (IF parts[1] = <<>> THEN <<>> ELSE <<parts[1]>>) \o FilterNone(Tail(parts))

LowerLetters ==
    {"a","b","c","d","e","f","g","h","i","j","k","l","m",
     "n","o","p","q","r","s","t","u","v","w","x","y","z"}

UpperLetters ==
    {"A","B","C","D","E","F","G","H","I","J","K","L","M",
     "N","O","P","Q","R","S","T","U","V","W","X","Y","Z"}

Digits == {"0","1","2","3","4","5","6","7","8","9"}

\* str.lower() on one character; the upper-case letters the model's URLs use
LowerChar(c) ==
    CASE c = "E" -> "e"
      [] c = "H" -> "h"
      [] c = "T" -> "t"
      [] c = "P" -> "p"
      [] c = "S" -> "s"
      [] OTHER -> c

\* str.lower()
Lower(s) == [i \in 1..Len(s) |-> LowerChar(s[i])]

(***************************************************************************)
(* urllib.parse                                                            *)
(***************************************************************************)
\* urllib.parse.scheme_chars
scheme_chars == LowerLetters \cup UpperLetters \cup Digits \cup {"+", "-", "."}

\* urllib.parse.uses_relative, uses_netloc, uses_params restricted to the
\* schemes the model's URLs can carry ('' is the missing scheme)
uses_relative == {<<>>, <<"h","t","t","p">>, <<"h","t","t","p","s">>, <<"f","i","l","e">>}
uses_netloc == {<<>>, <<"h","t","t","p">>, <<"h","t","t","p","s">>, <<"f","i","l","e">>}
uses_params == {<<>>, <<"h","t","t","p">>, <<"h","t","t","p","s">>}

\* _splitnetloc(url, 2) : index of the first of / ? # at or after position 3
NetlocEnd(url) ==
    IF \E i \in 3..Len(url) : url[i] \in {"/", "?", "#"}
    THEN CHOOSE i \in 3..Len(url) :
            url[i] \in {"/", "?", "#"} /\ \A j \in 3..(i - 1) : url[j] \notin {"/", "?", "#"}
    ELSE Len(url) + 1

\* urlsplit(url, scheme) : scheme, netloc, path, query, fragment
urlsplit(url0, default_scheme) ==
    LET i == Find(url0, ":")
        hasScheme == /\ i > 1
                     /\ url0[1] \in LowerLetters \cup UpperLetters
                     /\ \A k \in 1..(i - 1) : url0[k] \in scheme_chars
        scheme == IF hasScheme THEN Lower(Upto(url0, i)) ELSE default_scheme
        url1 == IF hasScheme THEN From(url0, i + 1) ELSE url0
        hasNetloc == StartsWith(url1, <<"/", "/">>)
        netloc == IF hasNetloc THEN SubSeq(url1, 3, NetlocEnd(url1) - 1) ELSE <<>>
        url2 == IF hasNetloc THEN From(url1, NetlocEnd(url1)) ELSE url1
        h == Find(url2, "#")
        fragment == IF h > 0 THEN From(url2, h + 1) ELSE <<>>
        url3 == IF h > 0 THEN Upto(url2, h) ELSE url2
        q == Find(url3, "?")
        query == IF q > 0 THEN From(url3, q + 1) ELSE <<>>
        url4 == IF q > 0 THEN Upto(url3, q) ELSE url3
    IN  [scheme |-> scheme, netloc |-> netloc, path |-> url4,
         query |-> query, fragment |-> fragment]

\* _splitparams(url) : index of the ; that starts the params, 0 when none
ParamsAt(path) ==
    IF Find(path, "/") > 0 THEN FindFrom(path, ";", RFind(path, "/")) ELSE Find(path, ";")

\* ParseResult(scheme, netloc, url, params, query, fragment) of a split
\* result s, the ;params of the last path segment taken off the path
ParseResult(s) ==
    LET split == s.scheme \in uses_params /\ Find(s.path, ";") > 0 /\ ParamsAt(s.path) > 0
    IN  [scheme |-> s.scheme, netloc |-> s.netloc,
         path |-> IF split THEN Upto(s.path, ParamsAt(s.path)) ELSE s.path,
         params |-> IF split THEN From(s.path, ParamsAt(s.path) + 1) ELSE <<>>,
         query |-> s.query, fragment |-> s.fragment]

\* urlparse(url, scheme)
urlparse(url, default_scheme) == ParseResult(urlsplit(url, default_scheme))

\* urlunparse((scheme, netloc, path, params, query, fragment))
urlunparse(scheme, netloc, path, params, query, fragment) ==
    LET url0 == IF params # <<>> THEN path \o <<";">> \o params ELSE path
        addNetloc == \/ netloc # <<>>
                     \/ (scheme # <<>> /\ scheme \in uses_netloc
                         /\ ~StartsWith(url0, <<"/", "/">>))
        url1 == IF addNetloc
                THEN <<"/", "/">> \o netloc
                     \o (IF url0 # <<>> /\ url0[1] # "/" THEN <<"/">> ELSE <<>>) \o url0
                ELSE url0
        url2 == IF scheme # <<>> THEN scheme \o <<":">> \o url1 ELSE url1
        url3 == IF query # <<>> THEN url2 \o <<"?">> \o query ELSE url2
    IN  IF fragment # <<>> THEN url3 \o <<"#">> \o fragment ELSE url3

\* the loop of urljoin that removes the . and .. segments
RECURSIVE ResolveSegments(_, _)
ResolveSegments(segments, resolved_path) ==
    IF Len(segments) = 0 THEN resolved_path
    ELSE IF segments[1] = <<".", ".">>
         THEN ResolveSegments(Tail(segments),
                              IF Len(resolved_path) = 0 THEN resolved_path
                              ELSE SubSeq(resolved_path, 1, Len(resolved_path) - 1))
    ELSE IF segments[1] = <<".">>
         THEN ResolveSegments(Tail(segments), resolved_path)
    ELSE ResolveSegments(Tail(segments), Append(resolved_path, segments[1]))

\* the path of urljoin's result: the segments of the base path without its
\* last one, then those of the reference, with . and .. resolved
ResolvePath(bpath, upath) ==
    LET base_parts0 == Split(bpath, "/")
        base_parts == IF base_parts0[Len(base_parts0)] # <<>>
                      THEN SubSeq(base_parts0, 1, Len(base_parts0) - 1)
                      ELSE base_parts0
        joined == base_parts \o Split(upath, "/")
        segments == IF StartsWith(upath, <<"/">>) THEN Split(upath, "/")
                    ELSE IF Len(joined) <= 2 THEN joined
                    ELSE <<joined[1]>> \o FilterNone(SubSeq(joined, 2, Len(joined) - 1))
                         \o <<joined[Len(joined)]>>
        resolved0 == ResolveSegments(segments, <<>>)
        resolved_path == IF segments[Len(segments)] \in {<<".">>, <<".", ".">>}
                         THEN Append(resolved0, <<>>) ELSE resolved0
    IN  IF Join(resolved_path, "/") = <<>> THEN <<"/">> ELSE Join(resolved_path, "/")

\* urljoin after b = urlparse(base, '') and u = urlparse(url, bscheme)
urljoin_parsed(url, b, u) ==
    LET netloc == IF u.scheme \in uses_netloc THEN b.netloc ELSE u.netloc
    IN  IF u.scheme # b.scheme \/ u.scheme \notin uses_relative THEN url
        ELSE IF u.scheme \in uses_netloc /\ u.netloc # <<>>
             THEN urlunparse(u.scheme, u.netloc, u.path, u.params, u.query, u.fragment)
        ELSE IF u.path = <<>> /\ u.params = <<>>
             THEN urlunparse(u.scheme, netloc, b.path, b.params,
                             IF u.query = <<>> THEN b.query ELSE u.query, u.fragment)
        ELSE urlunparse(u.scheme, netloc, ResolvePath(b.path, u.path),
                        u.params, u.query, u.fragment)

\* urllib.parse.urljoin(base, url)
urljoin(base, url) ==
    IF base = <<>> THEN url
    ELSE IF url = <<>> THEN base
    ELSE urljoin_parsed(url, urlparse(base, <<>>),
                        urlparse(url, urlsplit(base, <<>>).scheme))

\* the hostname property of a parse result: the netloc without userinfo and
\* port, lower-cased
Hostname(netloc) ==
    LET at == RFind(netloc, "@")
        hostinfo == IF at > 0 THEN From(netloc, at + 1) ELSE netloc
    IN  Lower(SplitFirst(hostinfo, ":"))

\* urlparse(url).hostname or ''
hostname_of(url) == Hostname(urlparse(url, <<>>).netloc)

(***************************************************************************)
(* os.path.splitext and EMAIL_REGEX                                        *)
(***************************************************************************)
\* os.path.splitext(p)[-1] : the extension of the last path component
splitext(p) ==
    LET sepIndex == RFind(p, "/")
        dotIndex == RFind(p, ".")
    IN  IF dotIndex > sepIndex
           /\ \E k \in (sepIndex + 1)..(dotIndex - 1) : p[k] # "."
        THEN From(p, dotIndex)
        ELSE <<>>

\* the character classes of EMAIL_REGEX
EmailLocalChars == LowerLetters \cup UpperLetters \cup Digits \cup {"_", ".", "+", "-"}
EmailDomainChars == LowerLetters \cup UpperLetters \cup Digits \cup {"-"}
EmailTldChars == LowerLetters \cup UpperLetters \cup Digits \cup {"-", "."}

\* EMAIL_REGEX.search(s) is not None :
\* [a-zA-Z0-9_.+-]+@[a-zA-Z0-9-]+\.[a-zA-Z0-9-.]{2,4}
EMAIL_REGEX_search(s) ==
    \E at \in 2..Len(s) :
        /\ s[at] = "@"
        /\ s[at - 1] \in EmailLocalChars
        /\ \E dot \in (at + 2)..(Len(s) - 2) :
              /\ s[dot] = "."
              /\ \A k \in (at + 1)..(dot - 1) : s[k] \in EmailDomainChars
              /\ s[dot + 1] \in EmailTldChars
              /\ s[dot + 2] \in EmailTldChars

(***************************************************************************)
(* The collaborators: download() and html_to_dom()                         *)
(***************************************************************************)
\* chriscarl.core.lib.stdlib.urllib.WEB_FILENAME_EXTENSIONS : the page-like
\* (html-family) extensions
WEB_FILENAME_EXTENSIONS == {<<".","h","t","m","l">>, <<".","h","t","m">>}

HTTPS == <<"h","t","t","p","s",":","/","/">>
EXAMPLE_COM == <<"e","x","a","m","p","l","e",".","c","o","m">>
OTHER_ORG == <<"o","t","h","e","r",".","o","r","g">>

\* the URLs a caller requests
Root == HTTPS \o EXAMPLE_COM \o <<"/">>
DirA == Root \o <<"a","/">>
DirAB == DirA \o <<"b","/">>
PageIndex == DirAB \o <<"i","n","d","e","x",".","h","t","m","l">>
UserDir == HTTPS \o <<"u","s","e","r","@">> \o EXAMPLE_COM \o <<"/","a","/">>

\* the URL a redirecting server answers with
LocalPage == <<"f","i","l","e",":","/","/","/","a","/","i","n","d","e","x",".","h","t","m","l">>
Moved == HTTPS \o OTHER_ORG \o <<"/","m","/">>

\* the href attributes of the anchors of the documents; <<>> is an anchor
\* without href (None) or with an empty one
HrefReport == <<"r","e","p","o","r","t",".","p","d","f">>
HrefReportV == HrefReport \o <<"?","v","=","1">>
HrefSelf == <<".","/","i","n","d","e","x",".","h","t","m","l">>
HrefUp == <<".",".","/">>
HrefUpFragment == <<".",".","/","#","t","o","p">>
HrefSibling == <<"s","i","b","l","i","n","g","/">>
HrefSiblingP == HrefSibling \o <<"?","p","=","1">>
HrefHere == <<".","/">>
HrefMailto == <<"m","a","i","l","t","o",":","t","e","s","t","@">> \o EXAMPLE_COM
HrefOther == HTTPS \o OTHER_ORG \o <<"/">>
HrefOtherPath == HTTPS \o OTHER_ORG \o <<"/">> \o EXAMPLE_COM \o <<"/">>
HrefOtherQuery == HTTPS \o OTHER_ORG \o <<"/","?","u","=">> \o EXAMPLE_COM
HrefLongerHost == HTTPS \o <<"n","o","t">> \o EXAMPLE_COM \o <<"/">>
HrefUserAt == HTTPS \o <<"u","s","e","r","@">> \o OTHER_ORG \o <<"/">>
HrefOtherZip == HTTPS \o OTHER_ORG \o <<"/","x",".","z","i","p">>
HrefNone == <<>>

Hrefs ==
    {HrefReport, HrefReportV, HrefSelf, HrefUp, HrefUpFragment, HrefSibling,
     HrefSiblingP, HrefHere, HrefMailto, HrefOther, HrefOtherPath,
     HrefOtherQuery, HrefLongerHost, HrefOtherZip, HrefUserAt, HrefNone}

\* the document of the worked example: report.pdf, ./index.html, ../, sibling/
DocExample == <<HrefReport, HrefSelf, HrefUp, HrefSibling>>

\* a document with a mailto: anchor, anchors to another host, a file and a
\* directory
DocMixed == <<HrefMailto, HrefOther, HrefReport, HrefOtherPath, HrefSibling>>

\* the longest anchor list drawn for a document
MaxAnchors == 1

\* dom.get_elements_by_tag('a') : the anchors of a document, in document order
RECURSIVE AnchorLists(_)
AnchorLists(n) ==
    IF n = 0 THEN {<<>>}
    ELSE AnchorLists(n - 1)
         \cup {Append(d, h) : d \in {e \in AnchorLists(n - 1) : Len(e) = n - 1}, h \in Hrefs}

Documents == AnchorLists(MaxAnchors) \cup {DocExample, DocMixed}

\* what download() and html_to_dom() do for one requested URL: raise
\* HTTPError, or answer a final URL whose content either fails to decode
\* (UnicodeDecodeError) or parses into anchors
FetchResults(url, documents) ==
    {[outcome |-> "HTTPError", final |-> url, anchors |-> <<>>]}
    \cup {[outcome |-> "UnicodeDecodeError", final |-> f, anchors |-> <<>>] : f \in {url, Moved}}
    \cup {[outcome |-> "ok", final |-> f, anchors |-> d] : f \in {url, Moved}, d \in documents}

(***************************************************************************)
(* url_walk_files_and_links                                                *)
(***************************************************************************)
\* logical = href.split('?')[0]
Logical(href) == SplitFirst(href, "?")

\* logically_the_same_place = urljoin(url, '.')
logically_the_same_place(url) == urljoin(url, <<".">>)

\* logically_above = urljoin(url, '..')
logically_above(url) == urljoin(url, <<".", ".">>)

\* the email test left out
IsEmail_Never(logical) == FALSE

\* if EMAIL_REGEX.search(logical): continue
IsEmail(logical) == EMAIL_REGEX_search(logical)

\* no href is taken for a file
IsFile_Never(href) == FALSE

\* ext and ext not in WEB_FILENAME_EXTENSIONS
IsFile(href) ==
    LET ext == splitext(urlparse(href, <<>>).path)
    IN  ext # <<>> /\ ext \notin WEB_FILENAME_EXTENSIONS

\* if logical == logically_the_same_place: continue
IsSamePlace(logical, same_place) == logical = same_place

\* the one-level-up test left out
IsAboveSkipped_Never(logical, above, bidi) == FALSE

\* if not bidirectional and logical == logically_above: continue
IsAboveSkipped(logical, above, bidi) == ~bidi /\ logical = above

\* the containment test left out: every candidate link is kept
HostnameInHref_Always(hostname, href) == TRUE

\* an empty hostname is contained in no href
HostnameInHref_NeedsHost(hostname, href) == hostname # <<>> /\ Contains(href, hostname)

\* if hostname in href
HostnameInHref(hostname, href) == Contains(href, hostname)

\* the place, direction and host filters applied before the extension test
Classify_FiltersFirst(orig_href, href, hostname, same_place, above, bidi) ==
    LET logical == Logical(href)
    IN  IF orig_href = <<>> THEN "skip"
        ELSE IF IsEmail(logical) THEN "skip"
        ELSE IF IsSamePlace(logical, same_place) THEN "skip"
        ELSE IF IsAboveSkipped(logical, above, bidi) THEN "skip"
        ELSE IF ~HostnameInHref(hostname, href) THEN "skip"
        ELSE IF IsFile(href) THEN "file"
        ELSE "link"

\* the tests of the body of `for anchor in anchors` on href = urljoin(url,
\* orig_href): "skip" (continue), "file" or "link"
Classify(orig_href, href, hostname, same_place, above, bidi) ==
    LET logical == Logical(href)
    IN  IF orig_href = <<>> THEN "skip"
        ELSE IF IsEmail(logical) THEN "skip"
        ELSE IF IsFile(href) THEN "file"
        ELSE IF IsSamePlace(logical, same_place) THEN "skip"
        ELSE IF IsAboveSkipped(logical, above, bidi) THEN "skip"
        ELSE IF HostnameInHref(hostname, href) THEN "link"
        ELSE "skip"

\* file_urls.append(href) or link_urls.append(href), by the kind of the href
Collect(acc, href, kind) ==
    CASE kind = "file" -> [acc EXCEPT !.file_urls = Append(@, href)]
      [] kind = "link" -> [acc EXCEPT !.link_urls = Append(@, href)]
      [] OTHER -> acc

\* the body of the loop for one anchor
AnchorBody(acc, orig_href, href, hostname, same_place, above, bidi) ==
    Collect(acc, href, Classify(orig_href, href, hostname, same_place, above, bidi))

\* for anchor in anchors: appends each href to file_urls or to link_urls
RECURSIVE AnchorLoop(_, _, _, _, _, _, _)
AnchorLoop(anchors, url, hostname, same_place, above, bidi, acc) ==
    IF anchors = <<>> THEN acc
    ELSE AnchorLoop(Tail(anchors), url, hostname, same_place, above, bidi,
                    AnchorBody(acc, Head(anchors), urljoin(url, Head(anchors)),
                               hostname, same_place, above, bidi))

\* only the decode error is caught: HTTPError reaches the caller
Caught_HTTPErrorEscapes(outcome) == outcome = "UnicodeDecodeError"

\* only the fetch error is caught: UnicodeDecodeError reaches the caller
Caught_DecodeErrorEscapes(outcome) == outcome = "HTTPError"

\* except urllib.error.HTTPError / except UnicodeDecodeError: both are caught
\* and the two empty lists returned, nothing is raised to the caller
Caught(outcome) == outcome \in {"HTTPError", "UnicodeDecodeError"}

\* if not skip_page: file_urls.append(url)
\* the page is collected whatever skip_page says
PageItself_Always(url, skip) == <<url>>

PageItself(url, skip) == IF skip THEN <<>> ELSE <<url>>

\* the one-level-up URL is never appended
AppendAbove_Never(link_urls, above, bidi) == link_urls

\* if bidirectional: link_urls.append(logically_above)
AppendAbove(link_urls, above, bidi) ==
    IF bidi THEN Append(link_urls, above) ELSE link_urls

\* the temporary file is deleted only after the anchors are read
Removed_OnlyWhenDecoded(outcome) == IF outcome = "ok" THEN 1 ELSE 0

\* finally: os.remove(downloaded_filepath), whether html_to_dom returned or
\* raised UnicodeDecodeError
Removed(outcome) == 1

\* the temporary files of one call: download() writes one unless it raises
\* HTTPError, and os.remove deletes
TempFile(outcome) ==
    IF outcome = "HTTPError" THEN [written |-> 0, removed |-> 0]
    ELSE [written |-> 1, removed |-> Removed(outcome)]

\* the visit of a fetched and decoded page, after hostname, url,
\* logically_the_same_place and logically_above are computed
VisitPage(url, anchors, hostname, same_place, above, bidi, skip) ==
    LET acc == AnchorLoop(anchors, url, hostname, same_place, above, bidi,
                          [file_urls |-> PageItself(url, skip), link_urls |-> <<>>])
    IN  [file_urls |-> acc.file_urls,
         link_urls |-> AppendAbove(acc.link_urls, above, bidi),
         raised |-> FALSE,
         temp |-> TempFile("ok")]

\* url keeps the requested URL after the download
Downloaded_KeepsRequested(original_url, final) == original_url

\* downloaded_filepath, url = download(url, '/temp', ...) : url is rebound to
\* the final URL
Downloaded(original_url, final) == final

\* url_walk_files_and_links(url, is_a, skip_sleep, bidirectional, skip_page)
\* with the answer of download() and html_to_dom() as the argument fetch
url_walk_files_and_links(original_url, fetch, bidi, skip) ==
    IF fetch.outcome # "ok"
    THEN [file_urls |-> <<>>, link_urls |-> <<>>, raised |-> ~Caught(fetch.outcome),
          temp |-> TempFile(fetch.outcome)]
    ELSE VisitPage(Downloaded(original_url, fetch.final), fetch.anchors,
                   hostname_of(original_url),
                   logically_the_same_place(Downloaded(original_url, fetch.final)),
                   logically_above(Downloaded(original_url, fetch.final)),
                   bidi, skip)

(***************************************************************************)
(* domain_walk_find_files and its caller                                   *)
(***************************************************************************)
VARIABLES
    url,              \* the URL popped from the queue (the seed before the first pop)
    is_a,             \* the hint handed to download()
    bidirectional,
    skip_page,
    max_queue_size,
    processed,
    files,
    queue,
    visited_links,
    visited_files,
    file_urls,        \* the file collection of the last visit
    idx,              \* position of `for file_url in file_urls`
    pc,               \* where the generator (or the single visitor call) stands
    yielded,          \* what the consumer has received so far
    fetched,          \* the URLs handed to url_walk_files_and_links, in order
    web,              \* the answer the site gave to each URL fetched so far
    visit,            \* the last call of url_walk_files_and_links and its result
    basic,            \* the arguments and the locals of basic()
    temp_files,       \* the number of temporary files in /temp
    log,              \* the progress lines handed to LOGGER.info
    longest,          \* history: the largest length the queue has had
    returned          \* history: what each call of url_walk_files_and_links returned

vars == <<url, is_a, bidirectional, skip_page, max_queue_size, processed, files,
          queue, visited_links, visited_files, file_urls, idx, pc, yielded,
          fetched, web, visit,
          basic,
          temp_files,
          log,
          longest,
          returned>>

\* the seeds of a walk
Seeds == {PageIndex, Root}

\* the URLs a single visitor call is made on
VisitUrls == {PageIndex, DirA, Root, UserDir, LocalPage}

\* the documents the walked site serves
DocQueries ==
    <<HrefReport, HrefReportV, HrefSibling, HrefSiblingP, HrefSibling, HrefSiblingP>>
WalkDocuments == {DocExample, DocQueries, <<>>}

\* the values of is_a a caller of the walker passes
Hints == {"link", "file"}

\* the number of documents the walked site holds; every further URL is a 404
MaxPages == 2

\* no walk of such a site pops more URLs than this
MaxProcessed == 15

NoTemp == [written |-> 0, removed |-> 0]
NoFetch == [outcome |-> "none", final |-> <<>>, anchors |-> <<>>]
NoResult == [file_urls |-> <<>>, link_urls |-> <<>>, raised |-> FALSE, temp |-> NoTemp]

\* basic() has not been called: the walker or the visitor is called directly
NoBasic ==
    [pc |-> "none", urls |-> <<>>, recurse |-> FALSE, bidirectional |-> FALSE,
     skip_page |-> FALSE, u |-> 1, batch_urls |-> <<>>, walks |-> <<>>,
     downloads |-> <<>>, pool |-> <<>>]

\* domain_walk_find_files(url, is_a='link', ...) up to the first `while queue`
Init ==
    /\ returned = <<>>
    /\ longest = 1
    /\ log = <<>>
    /\ temp_files = 0
    /\ basic = NoBasic
    /\ url \in Seeds
    /\ is_a \in Hints
    /\ bidirectional \in BOOLEAN
    /\ skip_page \in BOOLEAN
    /\ max_queue_size = -1
    /\ processed = 0
    /\ files = 0
    /\ queue = <<url>>
    /\ visited_links = {}
    /\ visited_files = {}
    /\ file_urls = <<>>
    /\ idx = 1
    /\ pc = "while"
    /\ yielded = <<>>
    /\ fetched = <<>>
    /\ web = <<>>
    /\ visit = [original_url |-> <<>>, is_a |-> "none", fetch |-> NoFetch, result |-> NoResult]

\* the hint of the caller is passed on to every visit
Unknown_KeepsHint(hint) == hint

\* is_a = 'unknown'  # we know the first is probably a link
Unknown(hint) == "unknown"

\* the links are put in front of the queue
Extend_AtFront(q, links) == links \o q

\* queue += link_urls
Extend(q, links) == q \o links

\* queue[0] read without removing it
Pop_KeepsHead(q) == q

\* the queue after url = queue.pop(0)
Pop(q) == Tail(q)

\* no URL counts as visited
AlreadyVisited_Never(u, links) == FALSE

\* `if url in visited_links: continue`
AlreadyVisited(u, links) == u \in links

\* no file URL counts as seen
AlreadyYielded_Never(f, seen) == FALSE

\* `if file_url not in visited_files`
AlreadyYielded(f, seen) == f \in seen

\* the length of the queue is never measured
Max_Unmeasured(a, b) == a

\* max([max_queue_size, len(queue)])
Max(a, b) == IF a >= b THEN a ELSE b

\* if processed % 10 == 0
Reports(n) == n % 10 = 0

\* processed / max_queue_size * 100 as '%0.2f' prints it, in hundredths of a
\* percent; the division raises ZeroDivisionError when max_queue_size is 0
Percent(n, size) == IF size = 0 THEN 0 ELSE (2 * n * 10000 + size) \div (2 * size)

\* the arguments of LOGGER.info('url walk queue: %d / %d, %0.2f%% done, %d
\* files discovered', ...)
ProgressLine(n, size, found) ==
    [processed |-> n, max_queue_size |-> size, percent |-> Percent(n, size),
     files |-> found]

\* while queue: max_queue_size = ...; url = queue.pop(0); processed += 1;
\* if url in visited_links: continue; visited_links.add(url)
Dequeue ==
    /\ pc = "while"
    /\ queue # <<>>
    /\ processed < MaxProcessed
    /\ max_queue_size' = Max(max_queue_size, Len(queue))
    /\ url' = Head(queue)
    /\ queue' = Pop(queue)
    /\ processed' = processed + 1
    /\ log' = IF Reports(processed')
              THEN Append(log, ProgressLine(processed', max_queue_size', files))
              ELSE log
    /\ IF Reports(processed') /\ max_queue_size' = 0
       THEN pc' = "raised" /\ UNCHANGED visited_links
       ELSE IF AlreadyVisited(Head(queue), visited_links)
       THEN pc' = "while" /\ UNCHANGED visited_links
       ELSE pc' = "visit" /\ visited_links' = visited_links \cup {Head(queue)}
    /\ UNCHANGED <<is_a, bidirectional, skip_page, files, visited_files,
                   file_urls, idx, yielded, fetched, web, visit, basic, temp_files, longest, returned>>

\* the number of URLs the site has answered with a document
Pages(w) == Cardinality({i \in 1..Len(w) : w[i].fetch.outcome = "ok"})

\* the answers of the site to a fetch of u: the one it gave before, or any
\* answer while it has documents left, or a 404; the final URL of content
\* that fails to decode is never read, so it is left at u
FetchChoices(u, w) ==
    IF \E i \in 1..Len(w) : w[i].url = u
    THEN {w[i].fetch : i \in {j \in 1..Len(w) : w[j].url = u}}
    ELSE IF Pages(w) < MaxPages
         THEN {r \in FetchResults(u, WalkDocuments) : r.outcome = "ok" \/ r.final = u}
    ELSE {[outcome |-> "HTTPError", final |-> u, anchors |-> <<>>]}

\* the site remembers its answer
Remember(w, u, fetch) ==
    IF \E i \in 1..Len(w) : w[i].url = u THEN w ELSE Append(w, [url |-> u, fetch |-> fetch])

\* file_urls, link_urls = url_walk_files_and_links(url, ...); is_a = 'unknown';
\* queue += link_urls; and the entry of the for loop
Visit ==
    /\ pc = "visit"
    /\ \E fetch \in FetchChoices(url, web) :
          \E result \in {url_walk_files_and_links(url, fetch, bidirectional, skip_page)} :
              /\ visit' = [original_url |-> url, is_a |-> is_a, fetch |-> fetch, result |-> result]
              /\ fetched' = Append(fetched, url)
              /\ returned' = Append(returned, result)
              /\ web' = Remember(web, url, fetch)
              /\ temp_files' = temp_files + result.temp.written - result.temp.removed
              /\ IF result.raised
                 THEN /\ pc' = "raised"
                      /\ UNCHANGED <<is_a, queue, file_urls, idx, longest>>
                 ELSE /\ pc' = "for"
                      /\ is_a' = Unknown(is_a)
                      /\ queue' = Extend(queue, result.link_urls)
                      /\ longest' = IF Len(queue') > longest THEN Len(queue') ELSE longest
                      /\ file_urls' = result.file_urls
                      /\ idx' = 1
    /\ UNCHANGED <<url, bidirectional, skip_page, max_queue_size, processed, files,
                   visited_links, visited_files, yielded, basic, log>>

\* the loop is left before its last file_url
Exhausted_Early(i, found) == TRUE

\* `for file_url in file_urls` has no next element
Exhausted(i, found) == i > Len(found)

\* the for loop is over: back to `while queue`
ForEnd ==
    /\ pc = "for"
    /\ Exhausted(idx, file_urls)
    /\ pc' = "while"
    /\ UNCHANGED <<url, is_a, bidirectional, skip_page, max_queue_size, processed,
                   files, queue, visited_links, visited_files, file_urls, idx,
                   yielded, fetched, web, visit, basic, temp_files, log, longest, returned>>

\* `if file_url not in visited_files` is false: next file_url
ForSkip ==
    /\ pc = "for"
    /\ idx <= Len(file_urls)
    /\ AlreadyYielded(file_urls[idx], visited_files)
    /\ idx' = idx + 1
    /\ UNCHANGED <<url, is_a, bidirectional, skip_page, max_queue_size, processed,
                   files, queue, visited_links, visited_files, file_urls, pc,
                   yielded, fetched, web, visit, basic, temp_files, log, longest, returned>>

\* yield file_url : the generator is suspended, the consumer has the value
Yield ==
    /\ pc = "for"
    /\ idx <= Len(file_urls)
    /\ ~AlreadyYielded(file_urls[idx], visited_files)
    /\ yielded' = Append(yielded, file_urls[idx])
    /\ pc' = "yield"
    /\ UNCHANGED <<url, is_a, bidirectional, skip_page, max_queue_size, processed,
                   files, queue, visited_links, visited_files, file_urls, idx,
                   fetched, web, visit, basic, temp_files, log, longest, returned>>

\* the consumer pulls again: visited_files.add(file_url); files += 1
Resume ==
    /\ pc = "yield"
    /\ visited_files' = visited_files \cup {file_urls[idx]}
    /\ files' = files + 1
    /\ idx' = idx + 1
    /\ pc' = "for"
    /\ UNCHANGED <<url, is_a, bidirectional, skip_page, max_queue_size, processed,
                   queue, visited_links, file_urls, yielded, fetched, web, visit, basic, temp_files, log, longest, returned>>

\* `while queue` is false: the generator is exhausted
Exhaust ==
    /\ pc = "while"
    /\ queue = <<>>
    /\ pc' = "done"
    /\ UNCHANGED <<url, is_a, bidirectional, skip_page, max_queue_size, processed,
                   files, queue, visited_links, visited_files, file_urls, idx,
                   yielded, fetched, web, visit, basic, temp_files, log, longest, returned>>

Next == Dequeue \/ Visit \/ ForEnd \/ ForSkip \/ Yield \/ Resume \/ Exhaust

Spec == Init /\ [][Next]_vars

\* the consumer keeps pulling and every step of the generator runs to its end
FairSpec == Spec /\ WF_vars(Next)

(***************************************************************************)
(* One call of url_walk_files_and_links, as basic() makes it without       *)
(* --recurse, on inputs drawn from the bounded sets                        *)
(***************************************************************************)
InitVisit ==
    /\ returned = <<>>
    /\ longest = 0
    /\ log = <<>>
    /\ temp_files = 0
    /\ basic = NoBasic
    /\ url \in VisitUrls
    /\ is_a = "link"
    /\ bidirectional \in BOOLEAN
    /\ skip_page \in BOOLEAN
    /\ max_queue_size = -1
    /\ processed = 0
    /\ files = 0
    /\ queue = <<>>
    /\ visited_links = {}
    /\ visited_files = {}
    /\ file_urls = <<>>
    /\ idx = 1
    /\ pc = "call"
    /\ yielded = <<>>
    /\ fetched = <<>>
    /\ web = <<>>
    /\ \E fetch \in FetchResults(url, Documents) :
          visit = [original_url |-> url, is_a |-> is_a, fetch |-> fetch, result |-> NoResult]

\* file_urls, _ = url_walk_files_and_links(url, is_a='link', ...)
VisitCall ==
    /\ pc = "call"
    /\ \E result \in {url_walk_files_and_links(url, visit.fetch, bidirectional, skip_page)} :
           /\ visit' = [visit EXCEPT !.result = result]
           /\ file_urls' = result.file_urls
           /\ pc' = IF result.raised THEN "raised" ELSE "returned"
           /\ returned' = Append(returned, result)
           /\ temp_files' = temp_files + result.temp.written - result.temp.removed
    /\ fetched' = Append(fetched, url)
    /\ UNCHANGED <<url, is_a, bidirectional, skip_page, max_queue_size, processed,
                   files, queue, visited_links, visited_files, idx, yielded, web, basic, log, longest>>

NextVisit == VisitCall

SpecVisit == InitVisit /\ [][NextVisit]_vars

(***************************************************************************)
(* basic(urls, recurse, bidirectional, skip_page): every URL is downloaded *)
(* directly, walked or visited once, and the batch goes to download_pool   *)
(***************************************************************************)
\* a URL that basic() downloads directly
FileUrl == DirAB \o HrefReport

\* the index page of the root
RootIndex == Root \o <<"i","n","d","e","x",".","h","t","m","l">>

\* the URLs given on the command line
BasicUrls == {PageIndex, Root, RootIndex, FileUrl}

\* the longest list of URLs given to basic()
MaxUrls == 3

\* the lists of URLs given to basic()
RECURSIVE UrlLists(_)
UrlLists(n) ==
    IF n = 0 THEN {<<>>}
    ELSE UrlLists(n - 1)
         \cup {Append(l, u) : l \in {e \in UrlLists(n - 1) : Len(e) = n - 1}, u \in BasicUrls}

\* what download() and html_to_dom() answer for a page that is served as is
Served(u, anchors) == [url |-> u, fetch |-> [outcome |-> "ok", final |-> u, anchors |-> anchors]]

\* the sites basic() is run on: a page with its parent directory and its
\* sibling directory, and a root with its index page and its sibling
\* directory; every other URL is answered as FetchChoices says
BasicSites ==
    {<<Served(PageIndex, DocExample), Served(DirA, DocQueries),
       Served(DirAB \o HrefSibling, <<>>)>>,
     <<Served(Root, DocExample), Served(RootIndex, DocExample),
       Served(Root \o HrefSibling, DocQueries)>>}

\* basic() up to `for u, url in enumerate(urls)`; no generator exists yet
InitBasic ==
    /\ returned = <<>>
    /\ longest = 0
    /\ log = <<>>
    /\ temp_files = 0
    /\ \E urls \in UrlLists(MaxUrls) \ {<<>>}, r \in BOOLEAN, b \in BOOLEAN, s \in BOOLEAN :
          basic = [NoBasic EXCEPT !.pc = "for", !.urls = urls, !.recurse = r,
                                  !.bidirectional = b, !.skip_page = s]
    /\ web \in BasicSites
    /\ url = <<>>
    /\ is_a = "link"
    /\ bidirectional = FALSE
    /\ skip_page = FALSE
    /\ max_queue_size = -1
    /\ processed = 0
    /\ files = 0
    /\ queue = <<>>
    /\ visited_links = {}
    /\ visited_files = {}
    /\ file_urls = <<>>
    /\ idx = 1
    /\ pc = "idle"
    /\ yielded = <<>>
    /\ fetched = <<>>
    /\ visit = [original_url |-> <<>>, is_a |-> "none", fetch |-> NoFetch, result |-> NoResult]

\* ext and ext not in WEB_FILENAME_EXTENSIONS, on urlparse(url).path.split('?')[0]
BasicIsFile(u) ==
    LET ext == splitext(SplitFirst(urlparse(u, <<>>).path, "?"))
    IN  ext # <<>> /\ ext \notin WEB_FILENAME_EXTENSIONS

\* domain_walk_find_files(url, is_a='link', skip_sleep=skip_sleep,
\* skip_page=skip_page): bidirectional is not passed, its default False applies
RecurseBidirectional(flag) == FALSE

\* the visited sets of the walk before are used again
set_Shared(previous) == previous

\* visited_links = set(), visited_files = set(): new at every call
set(previous) == {}

\* download(url, output_dirpath, is_a='file', ...) of a URL with a file extension
BasicDownload ==
    /\ basic.pc = "for"
    /\ basic.u <= Len(basic.urls)
    /\ BasicIsFile(basic.urls[basic.u])
    /\ basic' = [basic EXCEPT !.downloads = Append(@, basic.urls[basic.u]), !.u = @ + 1]
    /\ UNCHANGED <<url, is_a, bidirectional, skip_page, max_queue_size, processed, files,
                   queue, visited_links, visited_files, file_urls, idx, pc, yielded,
                   fetched, web, visit, temp_files, log, longest, returned>>

\* recurse: domain_walk_find_files(url, ...) is called and list() starts to
\* pull from the generator
BasicWalk ==
    /\ basic.pc = "for"
    /\ basic.u <= Len(basic.urls)
    /\ ~BasicIsFile(basic.urls[basic.u])
    /\ basic.recurse
    /\ basic' = [basic EXCEPT !.pc = "walk"]
    /\ url' = basic.urls[basic.u]
    /\ is_a' = "link"
    /\ bidirectional' = RecurseBidirectional(basic.bidirectional)
    /\ skip_page' = basic.skip_page
    /\ max_queue_size' = -1
    /\ processed' = 0
    /\ files' = 0
    /\ queue' = <<basic.urls[basic.u]>>
    /\ visited_links' = set(visited_links)
    /\ visited_files' = set(visited_files)
    /\ file_urls' = <<>>
    /\ idx' = 1
    /\ pc' = "while"
    /\ yielded' = <<>>
    /\ fetched' = <<>>
    /\ returned' = <<>>
    /\ longest' = 1
    /\ UNCHANGED <<web, visit, temp_files, log>>

\* batch_urls.extend(list(...)) once the generator is exhausted
BasicCollect ==
    /\ basic.pc = "walk"
    /\ pc = "done"
    /\ basic' = [basic EXCEPT !.pc = "for",
                              !.batch_urls = @ \o yielded,
                              !.walks = Append(@, [seed |-> basic.urls[basic.u],
                                                   yielded |-> yielded,
                                                   fetched |-> fetched]),
                              !.u = @ + 1]
    /\ pc' = "idle"
    /\ UNCHANGED <<url, is_a, bidirectional, skip_page, max_queue_size, processed, files,
                   queue, visited_links, visited_files, file_urls, idx, yielded,
                   fetched, web, visit, temp_files, log, longest, returned>>

\* not recurse: file_urls, _ = url_walk_files_and_links(url, is_a='link', ...,
\* bidirectional=bidirectional, skip_page=skip_page); batch_urls.extend(file_urls)
BasicVisit ==
    /\ basic.pc = "for"
    /\ basic.u <= Len(basic.urls)
    /\ ~BasicIsFile(basic.urls[basic.u])
    /\ ~basic.recurse
    /\ \E fetch \in FetchChoices(basic.urls[basic.u], web) :
       \E result \in {url_walk_files_and_links(basic.urls[basic.u], fetch,
                                                basic.bidirectional, basic.skip_page)} :
           /\ visit' = [original_url |-> basic.urls[basic.u], is_a |-> "link", fetch |-> fetch,
                        result |-> result]
           /\ web' = Remember(web, basic.urls[basic.u], fetch)
           /\ temp_files' = temp_files + result.temp.written - result.temp.removed
           /\ basic' = [basic EXCEPT !.batch_urls = @ \o result.file_urls, !.u = @ + 1]
    /\ UNCHANGED <<url, is_a, bidirectional, skip_page, max_queue_size, processed, files,
                   queue, visited_links, visited_files, file_urls, idx, pc, yielded,
                   fetched, log, longest, returned>>

\* if batch_urls: download_pool(batch_urls, ...)
BasicPool ==
    /\ basic.pc = "for"
    /\ basic.u > Len(basic.urls)
    /\ basic' = [basic EXCEPT !.pc = "done", !.pool = basic.batch_urls]
    /\ UNCHANGED <<url, is_a, bidirectional, skip_page, max_queue_size, processed, files,
                   queue, visited_links, visited_files, file_urls, idx, pc, yielded,
                   fetched, web, visit, temp_files, log, longest, returned>>

NextBasic ==
    \/ BasicDownload \/ BasicWalk \/ BasicCollect \/ BasicVisit \/ BasicPool
    \/ Dequeue \/ Visit \/ ForEnd \/ ForSkip \/ Yield \/ Resume \/ Exhaust

SpecBasic == InitBasic /\ [][NextBasic]_vars

\* list() keeps pulling and every step of basic() runs to its end
FairSpecBasic == SpecBasic /\ WF_vars(NextBasic)

(***************************************************************************)
(* Properties of the walk                                                  *)
(***************************************************************************)
\* the elements of a list
Range(seq) == {seq[i] : i \in 1..Len(seq)}

\* seq.count(x)
Count(seq, x) == Cardinality({i \in 1..Len(seq) : seq[i] = x})

\* C1: within one walk no two yielded file URLs have the same logical form
\* (the URL with its query stripped): of two hrefs that differ only in their
\* query string only the first is yielded.
C1_YieldedUniqueByLogicalForm ==
    \A i, j \in 1..Len(yielded) :
        i # j => Logical(yielded[i]) # Logical(yielded[j])

\* C2: within one walk url_walk_files_and_links is invoked at most once per
\* logical URL: a dequeued URL whose logical form equals that of an already
\* visited URL is skipped without being fetched.
C2_FetchedOncePerLogicalForm ==
    \A i, j \in 1..Len(fetched) :
        i # j => Logical(fetched[i]) # Logical(fetched[j])

\* C3: on a finite site a consumer that keeps pulling makes the walk
\* terminate, whatever bidirectional and skip_page are: the queue empties and
\* the generator is exhausted, also when the one-level-up URL of the root is
\* the root itself.
C3_WalkTerminates == <>(pc = "done" /\ queue = <<>>)

\* a walk that started at the root with bidirectional, was offered the root
\* again as its own one-level-up URL, skipped it and ended
C3_Witness ==
    /\ pc = "done"
    /\ bidirectional
    /\ fetched = <<Root>>
    /\ visit.fetch.outcome = "ok"
    /\ visit.fetch.final = Root
    /\ logically_above(Root) = Root
    /\ processed >= 2

\* the fetch of the seed raised HTTPError
SeedFetchFailed == Len(web) >= 1 /\ web[1].fetch.outcome = "HTTPError"

\* C4: if the fetch of the seed fails the walk yields nothing, raises nothing
\* and terminates normally.
C4_SeedFailureYieldsNothing ==
    /\ [](SeedFetchFailed => (yielded = <<>> /\ queue = <<>> /\ pc # "raised"))
    /\ (SeedFetchFailed ~> (pc = "done" /\ yielded = <<>>))

C4_Witness == SeedFetchFailed /\ pc = "done" /\ yielded = <<>> /\ processed = 1

\* the step that calls url_walk_files_and_links gets a failed fetch or decode
FailedVisitStep ==
    /\ pc = "visit"
    /\ pc' # "visit"
    /\ visit'.fetch.outcome \in {"HTTPError", "UnicodeDecodeError"}

\* the state right after a failed visit
AfterFailedVisit ==
    /\ pc = "for"
    /\ idx = 1
    /\ visit.fetch.outcome \in {"HTTPError", "UnicodeDecodeError"}

\* C5: a fetch failure or a decode failure at any visited URL is not fatal:
\* the visit contributes no file URL and no link URL, the URLs already queued
\* are still dequeued afterwards and the walk ends only with an empty queue.
C5_FailureIsNotFatal ==
    /\ [][FailedVisitStep =>
            /\ pc' = "for"
            /\ file_urls' = <<>>
            /\ queue' = queue
            /\ yielded' = yielded]_vars
    /\ [](pc = "done" => queue = <<>>)
    /\ [](pc # "raised")
    /\ (AfterFailedVisit ~> (pc = "done" /\ queue = <<>>))

\* a page that is not the seed failed to decode while URLs are still queued
C5_Witness ==
    /\ AfterFailedVisit
    /\ visit.fetch.outcome = "UnicodeDecodeError"
    /\ Len(fetched) >= 2
    /\ queue # <<>>

\* seq without the later occurrences of its elements
RECURSIVE Dedup(_)
Dedup(seq) ==
    IF seq = <<>> THEN <<>>
    ELSE LET front == Dedup(SubSeq(seq, 1, Len(seq) - 1))
         IN  IF seq[Len(seq)] \in Range(front) THEN front ELSE Append(front, seq[Len(seq)])

\* a is the beginning of b
IsPrefix(a, b) == Len(a) <= Len(b) /\ SubSeq(b, 1, Len(a)) = a

\* a is b with some elements left out
RECURSIVE IsSubseq(_, _)
IsSubseq(a, b) ==
    IF a = <<>> THEN TRUE
    ELSE IF b = <<>> THEN FALSE
    ELSE IF Head(a) = Head(b) THEN IsSubseq(Tail(a), Tail(b))
    ELSE IsSubseq(a, Tail(b))

\* what the site answered for a URL that was fetched
AnswerFor(u) == web[CHOOSE k \in 1..Len(web) : web[k].url = u].fetch

\* what the i-th visit of the walk returned
ResultOfVisit(i) == returned[i]

\* the file collections of the first n visits, one after the other
RECURSIVE FilesFound(_)
FilesFound(n) ==
    IF n = 0 THEN <<>> ELSE FilesFound(n - 1) \o ResultOfVisit(n).file_urls

\* the hrefs of the anchors of a list, resolved against base, in document order
Resolved(base, anchors) == [k \in 1..Len(anchors) |-> urljoin(base, anchors[k])]

\* C12: the yielded sequence is ordered by page and then by anchor: it is the
\* file collections of the visited pages, in the order the pages were
\* dequeued, each file URL at its first occurrence only; and every file
\* collection is the page itself (unless skip_page) followed by anchors in
\* document order (stated of the latest visit: every visit is the latest one
\* in the states that follow it, and what it returned never changes).
C12_YieldedInPageThenAnchorOrder ==
    /\ IsPrefix(yielded, Dedup(FilesFound(Len(fetched))))
    /\ pc \in {"while", "visit", "done"} => yielded = Dedup(FilesFound(Len(fetched)))
    /\ \A i \in {Len(fetched)} \ {0} :
          LET answer == AnswerFor(fetched[i])
              found == ResultOfVisit(i).file_urls
              own == PageItself(answer.final, skip_page)
          IN  answer.outcome = "ok" =>
                  /\ IsPrefix(own, found)
                  /\ IsSubseq(SubSeq(found, Len(own) + 1, Len(found)),
                              Resolved(answer.final, answer.anchors))

\* a finished walk of two decoded pages that found a file URL twice and
\* yielded three or more
C12_Witness ==
    /\ pc = "done"
    /\ Len(yielded) >= 3
    /\ Len(FilesFound(Len(fetched))) > Len(yielded)
    /\ Cardinality({i \in 1..Len(fetched) : AnswerFor(fetched[i]).outcome = "ok"}) = 2

\* C14: every fetch that succeeds writes one temporary file and the visit
\* deletes it once before it returns, after a decode failure as after normal
\* completion; a failed fetch writes none and deletes none; so no temporary
\* file exists while the walker is suspended at a yield, or once it has ended.
C14_TemporaryFilesDeleted ==
    /\ visit.result.temp.written
          = (IF visit.fetch.outcome \in {"ok", "UnicodeDecodeError"} /\ fetched # <<>>
             THEN 1 ELSE 0)
    /\ visit.result.temp.removed = visit.result.temp.written
    /\ pc \in {"for", "yield", "while", "done"} => temp_files = 0

\* the walker is suspended at a yield after a fetch that failed, a page that
\* did not decode and a page that did
C14_Witness ==
    /\ pc = "yield"
    /\ temp_files = 0
    /\ \E i \in 1..Len(web) : web[i].fetch.outcome = "HTTPError"
    /\ \E i \in 1..Len(web) : web[i].fetch.outcome = "UnicodeDecodeError"
    /\ visit.fetch.outcome = "ok"
    /\ visit.result.temp = [written |-> 1, removed |-> 1]

\* the path of u ends in an extension that is not one of a web page
HasFileExtension(u) ==
    LET ext == splitext(urlsplit(u, <<>>).path)
    IN  ext # <<>> /\ ext \notin WEB_FILENAME_EXTENSIONS

\* u is the final URL of a page that a visit of this walk decoded
IsPageVisited(u) ==
    \E i \in 1..Len(fetched) :
        AnswerFor(fetched[i]).outcome = "ok" /\ AnswerFor(fetched[i]).final = u

\* C15 as stated: a URL that the walker has yielded, the visited page's own
\* URL included, is never appended to the traversal queue afterwards.
C15_YieldedNeverEnqueued ==
    [][\A u \in Range(yielded) : Count(queue', u) <= Count(queue, u)]_vars

\* C15 as the code has it: a URL that an anchor put in the file collection (its
\* path has an extension that is not a web page's) is never in the queue; a
\* yielded URL found in the queue is the own URL of a page visited before,
\* put there by a link to it or as the one-level-up URL; no URL is fetched
\* twice because of it.
C15_AnchorFilesNeverEnqueued ==
    /\ \A i \in 1..Len(queue) : ~HasFileExtension(queue[i])
    /\ \A u \in Range(yielded) \cap Range(queue) : ~skip_page /\ IsPageVisited(u)
    /\ \A u \in Range(fetched) : Count(fetched, u) = 1

\* a page's own URL, yielded as a file, is in the queue again, and a file that
\* an anchor found has been yielded
C15_Witness ==
    /\ \E u \in Range(yielded) \cap Range(queue) : IsPageVisited(u)
    /\ \E f \in Range(yielded) : HasFileExtension(f)

\* C16 as stated: membership in the Links-visited set gates re-enqueue, so the
\* queue never holds a URL that has already been visited.
C16_QueueHoldsNoVisited == Range(queue) \cap visited_links = {}

\* C16 as the code has it: the Links-visited set only grows, and membership in
\* it is tested when a URL is dequeued: a dequeued URL that is in the set is
\* dropped without a visit, one that is not is added and visited, so no URL is
\* visited twice.
C16_VisitedGatesTheVisit ==
    [][/\ visited_links \subseteq visited_links'
       /\ processed' = processed + 1 /\ Head(queue) \in visited_links
            => pc' = "while" /\ fetched' = fetched /\ visited_links' = visited_links
       /\ processed' = processed + 1 /\ Head(queue) \notin visited_links
            => pc' = "visit" /\ visited_links' = visited_links \cup {Head(queue)}
       /\ \A u \in Range(fetched') : Count(fetched', u) = 1
       /\ Range(fetched') \subseteq visited_links']_vars

\* a URL that had been visited was in the queue again and has been dequeued a
\* second time, without a visit
C16_Witness ==
    /\ pc = "while"
    /\ url \in Range(fetched)
    /\ processed > Len(fetched)
    /\ Range(queue) \cap visited_links # {}

\* C17: the fetch hint passed to the visitor is the caller's is_a for the
\* first visit of a walk and "unknown" for every later visit, whatever the
\* first visit came to (a page, a failed fetch, content that does not decode).
C17_HintUnknownAfterFirstVisit ==
    [][/\ fetched' = <<>> => is_a' = is_a
       /\ fetched' # fetched
            => /\ visit'.is_a = (IF fetched = <<>> THEN is_a ELSE "unknown")
               /\ is_a' = "unknown"]_vars

\* a walk has made its third visit, of a URL whose fetch failed, with the hint
\* "unknown"
C17_Witness ==
    /\ Len(fetched) >= 3
    /\ visit.original_url = fetched[Len(fetched)]
    /\ visit.fetch.outcome = "HTTPError"
    /\ visit.is_a = "unknown"
    /\ is_a = "unknown"
    /\ pc = "for"

\* the URL the walk was started on
SeedOfWalk ==
    IF fetched # <<>> THEN fetched[1] ELSE IF processed = 0 THEN queue[1] ELSE url

\* everything that was ever put in the queue, in the order it was put there:
\* the seed, then the link collections of the first n visits
RECURSIVE Enqueued(_)
Enqueued(n) ==
    IF n = 0 THEN <<SeedOfWalk>> ELSE Enqueued(n - 1) \o ResultOfVisit(n).link_urls

\* the URLs on which a visit has been started, in order
Started == IF pc = "visit" THEN Append(fetched, url) ELSE fetched

\* C18: the queue is FIFO and starts as [seed]: the queue is always what is
\* left, after the first `processed` entries, of the seed followed by the link
\* collections of the visits in visit order, each in the order returned; and
\* the pages visited are those first entries in order of first occurrence.
C18_QueueIsFIFO ==
    LET all == Enqueued(Len(fetched))
    IN  /\ processed = 0 => queue = <<SeedOfWalk>>
        /\ processed <= Len(all)
        /\ queue = SubSeq(all, processed + 1, Len(all))
        /\ Started = Dedup(SubSeq(all, 1, processed))

\* the second visit has returned links while a URL queued by the first visit
\* is still waiting in front of them
C18_Witness ==
    /\ pc = "for"
    /\ Len(fetched) = 2
    /\ ResultOfVisit(2).link_urls # <<>>
    /\ Len(queue) > Len(ResultOfVisit(2).link_urls)
    /\ queue[1] \in Range(ResultOfVisit(1).link_urls)
    /\ queue[1] \notin Range(ResultOfVisit(2).link_urls)

\* the collection without the entry the visit itself added: the page in front
\* of the files, the one-level-up URL behind the links
FromAnchorsOnly(seq, front, back) == SubSeq(seq, 1 + front, Len(seq) - back)

\* C22: the file classification is not filtered by place, direction or host:
\* every anchor with a non-empty href whose resolved URL does not match the
\* email pattern and whose path has an extension that is not a page's is in
\* the file collection, once for each such anchor, whatever host or directory
\* it points to, and is not in the link collection.
C22_FilesAreNotFiltered ==
    pc = "returned" /\ visit.fetch.outcome = "ok"
    => LET final == visit.fetch.final
           anchors == visit.fetch.anchors
           found == FromAnchorsOnly(visit.result.file_urls, IF skip_page THEN 0 ELSE 1, 0)
           joined == Resolved(final, anchors)
       IN  \A k \in 1..Len(anchors) :
               (/\ anchors[k] # <<>>
                /\ ~EMAIL_REGEX_search(joined[k])
                /\ HasFileExtension(joined[k]))
               => /\ Count(found, joined[k])
                       = Cardinality({j \in 1..Len(anchors) :
                                        anchors[j] # <<>> /\ joined[j] = joined[k]})
                  /\ joined[k] \notin Range(visit.result.link_urls)

\* a page on example.com with an anchor to a .zip on other.org, whose URL does
\* not contain example.com: the .zip is in the file collection
C22_Witness ==
    /\ pc = "returned"
    /\ visit.fetch.outcome = "ok"
    /\ visit.fetch.final = visit.original_url
    /\ HrefOtherZip \in Range(visit.fetch.anchors)
    /\ hostname_of(HrefOtherZip) # hostname_of(visit.original_url)
    /\ ~Contains(HrefOtherZip, hostname_of(visit.original_url))
    /\ HrefOtherZip \in Range(visit.result.file_urls)
    /\ HrefOtherZip \notin Range(visit.result.link_urls)

\* C24 as stated: when the requested URL has no hostname, every anchor whose
\* resolved URL is page-like or without extension and is not the same place
\* (nor one level up, when bidirectional is false) is in the link collection,
\* whatever its host.
C24_HostlessAdmitsEveryLink ==
    pc = "returned" /\ visit.fetch.outcome = "ok" /\ hostname_of(visit.original_url) = <<>>
    => LET final == visit.fetch.final
           anchors == visit.fetch.anchors
           joined == Resolved(final, anchors)
       IN  \A k \in 1..Len(anchors) :
               (/\ anchors[k] # <<>>
                /\ ~HasFileExtension(joined[k])
                /\ SplitFirst(joined[k], "?") # urljoin(final, <<".">>)
                /\ bidirectional \/ SplitFirst(joined[k], "?") # urljoin(final, <<".", ".">>))
               => joined[k] \in Range(visit.result.link_urls)

\* C24 as the code has it: with no hostname in the requested URL the
\* containment test holds for every href, so every anchor with a non-empty
\* href whose logical form does not match the email pattern, whose resolved
\* URL is page-like or without extension and is not the same place (nor one
\* level up, when bidirectional is false) is in the link collection, once per
\* anchor, whatever its host; an anchor whose logical form matches the email
\* pattern is in neither collection.
C24_HostlessAdmitsEveryCandidate ==
    pc = "returned" /\ visit.fetch.outcome = "ok" /\ hostname_of(visit.original_url) = <<>>
    => LET final == visit.fetch.final
           anchors == visit.fetch.anchors
           joined == Resolved(final, anchors)
           links == FromAnchorsOnly(visit.result.link_urls, 0, IF bidirectional THEN 1 ELSE 0)
           found == FromAnchorsOnly(visit.result.file_urls, IF skip_page THEN 0 ELSE 1, 0)
       IN  \A k \in 1..Len(anchors) :
               /\ (/\ anchors[k] # <<>>
                   /\ ~EMAIL_REGEX_search(SplitFirst(joined[k], "?"))
                   /\ ~HasFileExtension(joined[k])
                   /\ SplitFirst(joined[k], "?") # urljoin(final, <<".">>)
                   /\ bidirectional \/ SplitFirst(joined[k], "?") # urljoin(final, <<".", ".">>))
                  => Count(links, joined[k])
                        = Cardinality({j \in 1..Len(anchors) :
                                        anchors[j] # <<>> /\ joined[j] = joined[k]})
               /\ (anchors[k] # <<>> /\ EMAIL_REGEX_search(SplitFirst(joined[k], "?")))
                  => joined[k] \notin Range(links) \cup Range(found)

\* a page requested as file:///a/index.html, which has no hostname, with
\* anchors to https://other.org/ and to a directory next to it: both are links
C24_Witness ==
    /\ pc = "returned"
    /\ ~bidirectional
    /\ visit.original_url = LocalPage
    /\ visit.fetch.final = LocalPage
    /\ visit.fetch.anchors = DocMixed
    /\ visit.result.link_urls
          = <<HrefOther, HrefOtherPath, urljoin(LocalPage, HrefSibling)>>

\* C19: when the fetch reports a final URL other than the requested one, the
\* visit resolves against the final URL: the page itself is collected as the
\* final URL, every other entry of either collection is an href joined to the
\* final URL, in document order, no kept link is the same place as the final
\* URL or (unless bidirectional) one level above it, the appended one-level-up
\* URL is that of the final URL; only the hostname that every kept link
\* contains is that of the requested URL.
C19_FinalUrlIsTheBase ==
    pc = "returned" /\ visit.fetch.outcome = "ok" /\ visit.fetch.final # visit.original_url
    => LET final == visit.fetch.final
           found == visit.result.file_urls
           links == visit.result.link_urls
           own == IF skip_page THEN 0 ELSE 1
           up == IF bidirectional THEN 1 ELSE 0
           joined == Resolved(final, visit.fetch.anchors)
       IN  /\ Len(found) >= own /\ Len(links) >= up
           /\ ~skip_page => found[1] = final
           /\ bidirectional => links[Len(links)] = urljoin(final, <<".", ".">>)
           /\ IsSubseq(FromAnchorsOnly(found, own, 0), joined)
           /\ IsSubseq(FromAnchorsOnly(links, 0, up), joined)
           /\ \A k \in 1..(Len(links) - up) :
                 /\ SplitFirst(links[k], "?") # urljoin(final, <<".">>)
                 /\ ~bidirectional => SplitFirst(links[k], "?") # urljoin(final, <<".", ".">>)
                 /\ Contains(links[k], hostname_of(visit.original_url))
           /\ \A k \in 1..Len(joined) :
                 /\ HasFileExtension(joined[k]) /\ ~EMAIL_REGEX_search(SplitFirst(joined[k], "?"))
                      => joined[k] \in Range(found)
                 /\ joined[k] = urljoin(final, <<".">>) => joined[k] \notin Range(links)

\* a page requested on example.com and answered from other.org: its file is
\* resolved against other.org, the link kept is one on other.org that has
\* example.com in its path, and the one-level-up URL is that of other.org
C19_Witness ==
    /\ pc = "returned"
    /\ visit.original_url = PageIndex
    /\ visit.fetch.final = Moved
    /\ visit.fetch.anchors = DocMixed
    /\ bidirectional /\ ~skip_page
    /\ visit.result.file_urls = <<Moved, Moved \o HrefReport>>
    /\ visit.result.link_urls = <<HrefOtherPath, HTTPS \o OTHER_ORG \o <<"/">> >>

\* C20: a progress line is computed exactly when the count of dequeued URLs,
\* skipped duplicates included, is a multiple of ten; max_queue_size is then
\* the largest length the queue has had so far and is at least 1, so the
\* percentage is computed without a division by zero; and the step that
\* reports does to the queue, the visited sets and the yielded sequence what a
\* step that does not report does.
C20_ProgressEveryTenth ==
    [][/\ log' # log <=> processed' = processed + 1 /\ processed' % 10 = 0
       /\ log' # log
            => /\ log' = Append(log, [processed |-> processed',
                                      max_queue_size |-> longest,
                                      percent |-> log'[Len(log')].percent,
                                      files |-> files])
               /\ longest >= 1 /\ max_queue_size' = longest /\ longest' = longest
               /\ 2 * longest * log'[Len(log')].percent \in
                     (2 * processed' * 10000 - longest)..(2 * processed' * 10000 + longest)
               /\ pc' # "raised"
               /\ queue' = Tail(queue)
               /\ visited_links' = visited_links \cup {Head(queue)}
               /\ pc' = (IF Head(queue) \in visited_links THEN "while" ELSE "visit")
               /\ visited_files' = visited_files
               /\ yielded' = yielded /\ files' = files]_vars

\* the tenth URL has been dequeued, duplicates that were skipped among the
\* ten, after the queue had grown beyond one entry
C20_Witness ==
    /\ Len(log) = 1
    /\ log[1].processed = 10
    /\ log[1].max_queue_size > 1
    /\ processed = 10
    /\ Len(fetched) < 9
    /\ pc = "while"

\* C21: the walk is lazy and strictly sequential: a step fetches at most one
\* URL, and only as the visit of the URL just dequeued; nothing is fetched,
\* dequeued or enqueued while the generator is suspended at a yield, whose
\* only continuation is the consumer's next pull; and when a page is fetched
\* the consumer has pulled every new file URL of all pages visited before.
C21_LazyAndSequential ==
    [][/\ fetched' # fetched
            => /\ pc = "visit"
               /\ fetched' = Append(fetched, url)
               /\ yielded = Dedup(FilesFound(Len(fetched)))
               /\ visited_files = Range(yielded)
               /\ temp_files = 0 /\ temp_files' = 0
       /\ pc = "yield"
            => /\ pc' = "for"
               /\ fetched' = fetched /\ web' = web /\ queue' = queue
               /\ processed' = processed /\ yielded' = yielded
               /\ visited_files' = visited_files \cup {yielded[Len(yielded)]}
       /\ pc' = "yield" => fetched' = fetched /\ Len(yielded') = Len(yielded) + 1]_vars

\* the generator is suspended at the first of several new file URLs of the
\* second page, links are waiting in the queue, and only two URLs have been
\* fetched
C21_Witness ==
    /\ pc = "yield"
    /\ Len(fetched) = 2
    /\ queue # <<>>
    /\ \E u \in Range(queue) : u \notin visited_links
    /\ \E i \in (idx + 1)..Len(file_urls) : file_urls[i] \notin Range(yielded)

\* C23: after a fetch that succeeded and decoded, the final URL of the page is
\* the first element of the returned file collection when skip_page is false;
\* when skip_page is true the visitor does not add it: the file collection
\* holds only URLs that anchors with a file extension resolved to, in document
\* order, and a walk yields no page for having been visited: everything it
\* yields is such an anchor's URL.
C23_PageItselfUnlessSkipped ==
    /\ visit.fetch.outcome = "ok" =>
          LET final == visit.fetch.final
              found == visit.result.file_urls
              joined == Resolved(final, visit.fetch.anchors)
          IN  IF skip_page
              THEN /\ IsSubseq(found, joined)
                   /\ \A k \in 1..Len(found) : HasFileExtension(found[k])
                   /\ final \notin Range(found)
              ELSE /\ found # <<>> /\ found[1] = final
                   /\ IsSubseq(Tail(found), joined)
    /\ skip_page =>
          \A k \in 1..Len(yielded) :
              /\ HasFileExtension(yielded[k])
              /\ ~IsPageVisited(yielded[k])
              /\ yielded[k] \notin Range(fetched)
    /\ ~skip_page /\ pc \in {"while", "done"} =>
          \A i \in 1..Len(fetched) :
              AnswerFor(fetched[i]).outcome = "ok" => AnswerFor(fetched[i]).final \in Range(yielded)

\* a finished walk with skip_page=true that decoded two pages, one of them
\* under a final URL other than the requested one, and yielded files
C23_Witness ==
    /\ skip_page
    /\ pc = "done"
    /\ yielded # <<>>
    /\ Cardinality({i \in 1..Len(fetched) : AnswerFor(fetched[i]).outcome = "ok"}) = 2
    /\ \E i \in 1..Len(fetched) :
          AnswerFor(fetched[i]).outcome = "ok" /\ AnswerFor(fetched[i]).final # fetched[i]

C7_AboveExactlyOnce ==
    (pc = "returned" /\ bidirectional /\ visit.fetch.outcome = "ok") =>
        Count(visit.result.link_urls, logically_above(visit.fetch.final)) = 1

\* C7 as amended: with bidirectional=true the one-level-up URL is the last
\* element of the link collection returned for a fetched and decoded page, and
\* it occurs exactly once there when no anchor of the page resolves to it.
C7_AboveAppendedLast ==
    (pc = "returned" /\ bidirectional /\ visit.fetch.outcome = "ok") =>
        LET final == visit.fetch.final
            anchors == visit.fetch.anchors
            links == visit.result.link_urls
            above == logically_above(final)
        IN  /\ links # <<>>
            /\ links[Len(links)] = above
            /\ (\A k \in 1..Len(anchors) :
                    anchors[k] = <<>> \/ urljoin(final, anchors[k]) # above)
                  => Count(links, above) = 1

\* a page with anchors none of which resolves to the one-level-up URL, one of
\* them kept as a link before the appended one-level-up URL
C7_Witness ==
    /\ pc = "returned"
    /\ bidirectional
    /\ visit.fetch.outcome = "ok"
    /\ Len(visit.result.link_urls) >= 2
    /\ Count(visit.result.link_urls, logically_above(visit.fetch.final)) = 1
    /\ \A k \in 1..Len(visit.fetch.anchors) :
          urljoin(visit.fetch.final, visit.fetch.anchors[k])
              # logically_above(visit.fetch.final)

\* C8: visiting https://example.com/a/b/index.html with the anchors
\* report.pdf, ./index.html, ../ and sibling/ and bidirectional=false returns
\* the files {.../a/b/report.pdf} (plus the page itself unless skip_page) and
\* the links {.../a/b/sibling/}: ./index.html and ../ are not links.
C8_WorkedExample ==
    (/\ pc = "returned"
     /\ ~bidirectional
     /\ visit.original_url = PageIndex
     /\ visit.fetch = [outcome |-> "ok", final |-> PageIndex, anchors |-> DocExample])
    => /\ Range(visit.result.file_urls)
            = {DirAB \o HrefReport} \cup (IF skip_page THEN {} ELSE {PageIndex})
       /\ Range(visit.result.link_urls) = {DirAB \o HrefSibling}

\* C9: no URL whose logical form matches the email pattern is in the file
\* collection or in the link collection of a visit.
C9_NoEmailInEitherCollection ==
    pc = "returned" =>
        \A u \in Range(visit.result.file_urls) \cup Range(visit.result.link_urls) :
            ~EMAIL_REGEX_search(Logical(u))

\* C9 as amended: no entry that an anchor contributed to the file collection
\* or to the link collection has a logical form matching the email pattern;
\* the page's own final URL (the first file entry unless skip_page) and the
\* appended one-level-up URL (the last link entry when bidirectional) are
\* added without the test.
C9_NoEmailFromAnchors ==
    pc = "returned" =>
        LET collected == visit.result.file_urls
            links == visit.result.link_urls
        IN  /\ \A i \in (IF skip_page THEN 1 ELSE 2)..Len(collected) :
                  ~EMAIL_REGEX_search(Logical(collected[i]))
            /\ \A i \in 1..(Len(links) - (IF bidirectional THEN 1 ELSE 0)) :
                  ~EMAIL_REGEX_search(Logical(links[i]))

\* a page whose own URL is no email, with a mailto: anchor and another anchor
\* that is collected
C9_Witness ==
    /\ pc = "returned"
    /\ visit.fetch.outcome = "ok"
    /\ ~EMAIL_REGEX_search(visit.fetch.final)
    /\ HrefMailto \in Range(visit.fetch.anchors)
    /\ EMAIL_REGEX_search(Logical(urljoin(visit.fetch.final, HrefMailto)))
    /\ Len(visit.result.file_urls) + Len(visit.result.link_urls)
          > (IF skip_page THEN 0 ELSE 1) + (IF bidirectional THEN 1 ELSE 0)

\* C10: an anchor whose resolved URL has a host other than the hostname of
\* the requested URL is never in the returned link collection, also when the
\* requested hostname occurs in its path, its query or a longer host name.
C10_NoLinkToAnotherHost ==
    pc = "returned" =>
        \A k \in 1..Len(visit.fetch.anchors) :
            LET href == urljoin(visit.fetch.final, visit.fetch.anchors[k])
            IN  (/\ visit.fetch.anchors[k] # <<>>
                 /\ hostname_of(href) # hostname_of(visit.original_url))
                => href \notin Range(visit.result.link_urls)

\* C10 as amended: such an anchor is never in the returned link collection
\* unless the requested hostname is a substring of its resolved URL, or that
\* URL is the one-level-up URL appended with bidirectional=true.
C10_NoLinkWithoutHostnameSubstring ==
    pc = "returned" =>
        \A k \in 1..Len(visit.fetch.anchors) :
            LET href == urljoin(visit.fetch.final, visit.fetch.anchors[k])
            IN  (/\ visit.fetch.anchors[k] # <<>>
                 /\ hostname_of(href) # hostname_of(visit.original_url)
                 /\ ~Contains(href, hostname_of(visit.original_url))
                 /\ ~(bidirectional /\ href = logically_above(visit.fetch.final)))
                => href \notin Range(visit.result.link_urls)

\* a page served at the requested URL with an anchor to another host that
\* does not contain the requested hostname, and an anchor that is kept
C10_Witness ==
    /\ pc = "returned"
    /\ ~bidirectional
    /\ visit.fetch.outcome = "ok"
    /\ visit.fetch.final = visit.original_url
    /\ HrefOther \in Range(visit.fetch.anchors)
    /\ hostname_of(HrefOther) # hostname_of(visit.original_url)
    /\ ~Contains(HrefOther, hostname_of(visit.original_url))
    /\ visit.result.link_urls # <<>>

(***************************************************************************)
(* Properties of basic()                                                   *)
(***************************************************************************)
\* C11: when basic runs with recurse=true and bidirectional=true the walker
\* runs with upward navigation: its bidirectional is true, and after every
\* page it fetched and decoded the one-level-up URL of the page is in the queue.
C11_RecurseWalksUpward ==
    (basic.pc = "walk" /\ basic.recurse /\ basic.bidirectional) =>
        /\ bidirectional
        /\ (pc = "for" /\ idx = 1 /\ fetched # <<>> /\ visit.fetch.outcome = "ok")
              => logically_above(visit.fetch.final) \in Range(queue)

\* the yielded sequences of the first n walks of basic(), one after the other
RECURSIVE Collected(_)
Collected(n) ==
    IF n = 0 THEN <<>> ELSE Collected(n - 1) \o basic.walks[n].yielded

\* C13: walks share no state: every walk that basic starts begins with empty
\* visited sets, a queue of its seed alone and fresh counters; a walk on a seed
\* yields the same sequence whether it is the first walk or runs after walks
\* on this or on other seeds; and the batch is the yielded sequences one after
\* the other, so a file URL reached by two walks is in the batch once per walk.
C13_WalksShareNoState ==
    /\ (basic.pc = "walk" /\ pc = "while" /\ processed = 0) =>
          /\ queue = <<basic.urls[basic.u]>>
          /\ visited_links = {} /\ visited_files = {}
          /\ is_a = "link" /\ files = 0 /\ max_queue_size = -1 /\ yielded = <<>>
    /\ \A i, j \in 1..Len(basic.walks) :
          (i < j /\ basic.walks[i].seed = basic.walks[j].seed) =>
              /\ basic.walks[j].yielded = basic.walks[i].yielded
              /\ basic.walks[j].fetched = basic.walks[i].fetched
    /\ \A i \in 1..Len(basic.walks) :
          Cardinality(Range(basic.walks[i].yielded)) = Len(basic.walks[i].yielded)
    /\ basic.recurse => basic.batch_urls = Collected(Len(basic.walks))
    /\ basic.pc = "done" => basic.pool = basic.batch_urls

\* basic walked a seed, then another seed that reached a file URL of the
\* first walk, then the first seed again
C13_Witness ==
    /\ basic.pc = "done"
    /\ Len(basic.walks) = 3
    /\ basic.walks[1].seed = basic.walks[3].seed
    /\ basic.walks[1].seed # basic.walks[2].seed
    /\ Len(basic.walks[3].yielded) >= 2
    /\ \E f \in Range(basic.walks[1].yielded) \cap Range(basic.walks[2].yielded) :
          Count(basic.pool, f) = 3

====
